---- MODULE Spec2Model ----
(***************************************************************************)
(* Model of the Home page component (src/src/pages/index.tsx): the form    *)
(* state, the list of execution records and the asynchronous handler       *)
(* triggerWorkflow, whose POST to the webhook is awaited.                  *)
(*                                                                         *)
(* JavaScript strings that the code inspects character by character (the   *)
(* input text) are sequences of one-character strings.  The synchronous    *)
(* part of triggerWorkflow (up to the await) is one action, because the    *)
(* event loop runs it to completion; each settlement of the awaited POST   *)
(* is one action running the rest of the handler.                          *)
(***************************************************************************)
EXTENDS Integers, Sequences, FiniteSets, TLC

(* ------------------------------ bounds --------------------------------- *)
\* number of accepted submissions explored
MaxSubs == 3
\* number of milliseconds the clock may advance
MaxClock == 1

(* --------------------------- text helpers ------------------------------ *)
\* characters String.prototype.trim removes (a sample of the white space class)
WhiteSpace == {" ", "\t"}

RECURSIVE trimStart(_)
trimStart(s) ==
  IF s # <<>> /\ Head(s) \in WhiteSpace THEN trimStart(Tail(s)) ELSE s

RECURSIVE trimEnd(_)
trimEnd(s) ==
  IF s # <<>> /\ s[Len(s)] \in WhiteSpace
  THEN trimEnd(SubSeq(s, 1, Len(s) - 1)) ELSE s

\* a trim that would leave the white space at the end
trimLeadingOnly(s) == trimStart(s)

\* String.prototype.trim
trim(s) == trimEnd(trimStart(s))

\* the character class [a-zA-Z0-9_-]
IdChars ==
  {"a","b","c","d","e","f","g","h","i","j","k","l","m",
   "n","o","p","q","r","s","t","u","v","w","x","y","z",
   "A","B","C","D","E","F","G","H","I","J","K","L","M",
   "N","O","P","Q","R","S","T","U","V","W","X","Y","Z",
   "0","1","2","3","4","5","6","7","8","9","_","-"}

\* literals of the pattern
LitHttp == <<"h","t","t","p">>
LitS == <<"s">>
LitColonSlashes == <<":","/","/">>
LitWww == <<"w","w","w",".">>
LitYoutubeWatch ==
  <<"y","o","u","t","u","b","e",".","c","o","m","/","w","a","t","c","h","?","v","=">>
LitYoutuBe == <<"y","o","u","t","u",".","b","e","/">>
\* the quantifier {11}
IdLength == 11

\* positions after matching the literal lit at one of the positions P of s
MatchLit(s, P, lit) ==
  { p + Len(lit) : p \in { q \in P : /\ q + Len(lit) - 1 <= Len(s)
                                     /\ SubSeq(s, q, q + Len(lit) - 1) = lit } }

\* positions after matching n characters of the class at one of the positions P
MatchClass(s, P, class, n) ==
  { p + n : p \in { q \in P : /\ q + n - 1 <= Len(s)
                              /\ \A i \in q .. (q + n - 1) : s[i] \in class } }

\* end positions of the matches of
\*   ^(https?:\/\/)?(www\.)?(youtube\.com\/watch\?v=|youtu\.be\/)[a-zA-Z0-9_-]{11}
\* in s (position 1 is the ^ anchor; there is no $ anchor)
youtubeRegexEnds(s) ==
  LET p0 == {1}
      h  == MatchLit(s, p0, LitHttp)
      hs == h \cup MatchLit(s, h, LitS)
      p1 == p0 \cup MatchLit(s, hs, LitColonSlashes)
      p2 == p1 \cup MatchLit(s, p1, LitWww)
      p3 == MatchLit(s, p2, LitYoutubeWatch) \cup MatchLit(s, p2, LitYoutuBe)
  IN  MatchClass(s, p3, IdChars, IdLength)

\* a test whose pattern would end in $
youtubeRegexTestAnchored(s) == (Len(s) + 1) \in youtubeRegexEnds(s)

\* youtubeRegex.test(s)
youtubeRegexTest(s) == youtubeRegexEnds(s) # {}

(* ----------------------------- messages -------------------------------- *)
MsgInvalidUrl == "Please enter a valid YouTube URL"
MsgLoading == "Starting video processing..."
MsgGeneric == "Failed to process video"
MsgTimeout == "Processing timed out. Large videos may take longer to process."
MsgNotFound == "Workflow endpoint not found. Please check backend deployment."
MsgCannotConnect == "Cannot connect to backend. Please check if the service is running."

\* the JavaScript value undefined (an absent field reads as undefined)
Undefined == [undefined |-> TRUE]

\* error.message as the sequence of its words; String.prototype.includes
\* looks for the words of sub in a row
Includes(msg, sub) ==
  \E i \in 1 .. (Len(msg) - Len(sub) + 1) : SubSeq(msg, i, i + Len(sub) - 1) = sub

WordsNetworkError == <<"Network", "Error">>

\* the rejections axios.post can produce (code, message, response?)
ErrTimeout ==
  [code |-> "ECONNABORTED", message |-> <<"timeout", "of", "300000ms", "exceeded">>,
   response |-> Undefined]
ErrNetwork ==
  [code |-> "ERR_NETWORK", message |-> <<"Network", "Error">>, response |-> Undefined]
ErrNotFound ==
  [code |-> "ERR_BAD_REQUEST",
   message |-> <<"Request", "failed", "with", "status", "code", "404">>,
   response |-> [status |-> 404, data |-> Undefined]]
ErrServerMessage ==
  [code |-> "ERR_BAD_RESPONSE",
   message |-> <<"Request", "failed", "with", "status", "code", "500">>,
   response |-> [status |-> 500, data |-> [message |-> "Workflow failed"]]]
ErrServerBare ==
  [code |-> "ERR_BAD_RESPONSE",
   message |-> <<"Request", "failed", "with", "status", "code", "500">>,
   response |-> [status |-> 500, data |-> Undefined]]
\* a 404 whose body carries a message of the server
ErrNotFoundMessage ==
  [code |-> "ERR_BAD_REQUEST",
   message |-> <<"Request", "failed", "with", "status", "code", "404">>,
   response |-> [status |-> 404, data |-> [message |-> "Workflow failed"]]]
\* the request was aborted before it completed
ErrAborted ==
  [code |-> "ECONNABORTED", message |-> <<"Request", "aborted">>, response |-> Undefined]
Errors ==
  {ErrTimeout, ErrNetwork, ErrNotFound, ErrServerMessage, ErrServerBare,
   ErrNotFoundMessage, ErrAborted}

\* the bodies a resolved POST can carry (response.data)
Datas == {[clips_generated |-> 3], Undefined}

\* error.response?.status === n
responseStatusIs(error, n) ==
  error.response # Undefined /\ error.response.status = n

\* error.response?.data?.message, with "" standing for every falsy value
responseDataMessage(error) ==
  IF /\ error.response # Undefined
     /\ error.response.data # Undefined
     /\ "message" \in DOMAIN error.response.data
  THEN error.response.data.message ELSE ""

\* a classification that would look for the code ETIMEDOUT
errorMessageOtherCode(error) ==
  IF error.code = "ETIMEDOUT" THEN MsgTimeout
  ELSE IF responseStatusIs(error, 404) THEN MsgNotFound
  ELSE IF responseStatusIs(error, 0) \/ Includes(error.message, WordsNetworkError)
       THEN MsgCannotConnect
  ELSE IF responseDataMessage(error) # ""
       THEN responseDataMessage(error)
  ELSE MsgGeneric

\* the classification of the catch block
errorMessage(error) ==
  IF error.code = "ECONNABORTED" THEN MsgTimeout
  ELSE IF responseStatusIs(error, 404) THEN MsgNotFound
  ELSE IF responseStatusIs(error, 0) \/ Includes(error.message, WordsNetworkError)
       THEN MsgCannotConnect
  ELSE IF responseDataMessage(error) # ""
       THEN responseDataMessage(error)
  ELSE MsgGeneric

\* response.data?.clips_generated || 'multiple'
clipsText(data) ==
  IF data # Undefined /\ "clips_generated" \in DOMAIN data /\ data.clips_generated # 0
  THEN ToString(data.clips_generated) ELSE "multiple"

successMessage(data) ==
  "Video processing completed! Generated " \o clipsText(data) \o " clips."

(* ------------------------------ inputs --------------------------------- *)
VideoId == <<"d","Q","w","4","w","9","W","g","X","c","Q">>
UrlWatch == LitHttp \o LitS \o LitColonSlashes \o LitWww \o LitYoutubeWatch \o VideoId
UrlShort == LitYoutuBe \o VideoId
UrlNotAUrl == <<"n","o","t"," ","a"," ","u","r","l">>

\* the texts typed into the field
Urls ==
  { <<>>,                                  \* empty
    <<" ", "\t">>,                         \* white space only
    UrlNotAUrl,                            \* no pattern
    <<" ">> \o UrlShort \o <<" ">> }       \* a padded short URL

(* ------------------------------- state --------------------------------- *)
VARIABLES
  videoUrl,      \* useState(''): the text of the input field
  isProcessing,  \* useState(false)
  executions,    \* useState<Execution[]>([]); the field sub of a record is
                 \* history: the number of the submission that created it
  calls,         \* the accepted invocations of triggerWorkflow, in order:
                 \* the body posted, the locals execution.id and loadingToast,
                 \* and whether the invocation is still at the await
  toasts,        \* the toasts made by toast.loading, by id: what each shows
  notice,        \* whether toast.error has shown the validation message
  now            \* the clock read by Date.now() and new Date()

vars == <<videoUrl, isProcessing, executions, calls, toasts, notice, now>>

\* Date.now().toString()
idOf(t) == ToString(t)

\* new Date().toISOString(), for the instant t milliseconds after the start
toISOString(t) == "T+" \o ToString(t) \o "ms"

Init ==
  /\ videoUrl = <<>>
  /\ isProcessing = FALSE
  /\ executions = <<>>
  /\ calls = <<>>
  /\ toasts = <<>>
  /\ notice = FALSE
  /\ now = 0

\* the clock advances by a millisecond
Tick ==
  /\ now < MaxClock
  /\ now' = now + 1
  /\ UNCHANGED <<videoUrl, isProcessing, executions, calls, toasts, notice>>

\* onChange={(e) => setVideoUrl(e.target.value)}
onChange(value) ==
  /\ videoUrl' = value
  /\ UNCHANGED <<isProcessing, executions, calls, toasts, notice, now>>

\* a rejection that would also empty the field
rejectInputClearing ==
  /\ notice' = TRUE
  /\ videoUrl' = <<>>
  /\ UNCHANGED <<isProcessing, executions, calls, toasts, now>>

\* toast.error('Please enter a valid YouTube URL'); return
rejectInput ==
  /\ notice' = TRUE
  /\ UNCHANGED <<videoUrl, isProcessing, executions, calls, toasts, now>>

\* an insertion that would put the record last: [...prev, execution]
prependAtEnd(execution, prev) == prev \o <<execution>>

\* prev => [execution, ...prev]
prepend(execution, prev) == <<execution>> \o prev

\* the handler up to its await: validation, the new record, the POST
triggerWorkflow ==
  IF trim(videoUrl) = <<>> THEN rejectInput
  ELSE IF ~ youtubeRegexTest(trim(videoUrl)) THEN rejectInput
  ELSE
    /\ Len(calls) < MaxSubs
    /\ LET loadingToast == Len(toasts) + 1
           execution == [id |-> idOf(now), status |-> "running",
                         startedAt |-> toISOString(now), result |-> Undefined,
                         sub |-> Len(calls) + 1]
       IN  /\ isProcessing' = TRUE
           /\ toasts' = Append(toasts, [type |-> "loading", message |-> MsgLoading])
           /\ executions' = prepend(execution, executions)
           /\ calls' = Append(calls, [videoUrl |-> trim(videoUrl),
                                      execution |-> execution.id,
                                      loadingToast |-> loadingToast,
                                      pc |-> "await"])
    /\ UNCHANGED <<videoUrl, notice, now>>

\* an update that would forget result: response.data
markSuccessStatusOnly(prev, id, data) ==
  [i \in 1 .. Len(prev) |->
     IF prev[i].id = id THEN [prev[i] EXCEPT !.status = "success"] ELSE prev[i]]

\* prev.map(exec => exec.id === id ? { ...exec, status: 'success', result: data } : exec)
markSuccess(prev, id, data) ==
  [i \in 1 .. Len(prev) |->
     IF prev[i].id = id
     THEN [prev[i] EXCEPT !.status = "success", !.result = data]
     ELSE prev[i]]

\* an update that would take the newest record for the failed one
markErrorNewest(prev, id) ==
  [i \in 1 .. Len(prev) |->
     IF i = 1 THEN [prev[i] EXCEPT !.status = "error"] ELSE prev[i]]

\* prev.map(exec => exec.id === id ? { ...exec, status: 'error' } : exec)
markError(prev, id) ==
  [i \in 1 .. Len(prev) |->
     IF prev[i].id = id THEN [prev[i] EXCEPT !.status = "error"] ELSE prev[i]]

\* the POST of call k resolves with response.data = data: the rest of the
\* try block, then finally
postResolves(k, data) ==
  /\ calls[k].pc = "await"
  /\ executions' = markSuccess(executions, calls[k].execution, data)
  /\ toasts' = [toasts EXCEPT ![calls[k].loadingToast] =
                  [type |-> "success", message |-> successMessage(data)]]
  /\ videoUrl' = <<>>
  /\ isProcessing' = FALSE
  /\ calls' = [calls EXCEPT ![k].pc = "done"]
  /\ UNCHANGED <<notice, now>>

\* a catch block that would not be followed by finally
postRejectsNoFinally(k, error) ==
  /\ calls[k].pc = "await"
  /\ executions' = markError(executions, calls[k].execution)
  /\ toasts' = [toasts EXCEPT ![calls[k].loadingToast] =
                  [type |-> "error", message |-> errorMessage(error)]]
  /\ calls' = [calls EXCEPT ![k].pc = "done"]
  /\ UNCHANGED <<videoUrl, isProcessing, notice, now>>

\* the POST of call k rejects with error: the catch block, then finally
postRejects(k, error) ==
  /\ calls[k].pc = "await"
  /\ executions' = markError(executions, calls[k].execution)
  /\ toasts' = [toasts EXCEPT ![calls[k].loadingToast] =
                  [type |-> "error", message |-> errorMessage(error)]]
  /\ isProcessing' = FALSE
  /\ calls' = [calls EXCEPT ![k].pc = "done"]
  /\ UNCHANGED <<videoUrl, notice, now>>

\* the input field: disabled={isProcessing}
inputDisabled == isProcessing

\* a button that would be disabled by an empty field only
buttonDisabledBlankOnly == trim(videoUrl) = <<>>

\* the button: disabled={isProcessing || !videoUrl.trim()}
buttonDisabled == isProcessing \/ trim(videoUrl) = <<>>

\* typing into the field of the page
onChangePage(value) == ~ inputDisabled /\ onChange(value)

\* onClick={triggerWorkflow} of the button of the page
onClick == ~ buttonDisabled /\ triggerWorkflow

Resolves == \E k \in 1 .. Len(calls) : \E data \in Datas : postResolves(k, data)
Rejects == \E k \in 1 .. Len(calls) : \E error \in Errors : postRejects(k, error)
Types == \E value \in Urls : onChange(value)
TypesPage == \E value \in Urls : onChangePage(value)

\* the handlers invoked directly, whatever the page has disabled
Next == triggerWorkflow \/ Types \/ Resolves \/ Rejects \/ Tick
Spec == Init /\ [][Next]_vars

\* the handlers invoked through the controls of the page
NextPage == onClick \/ TypesPage \/ Resolves \/ Rejects \/ Tick
PageSpec == Init /\ [][NextPage]_vars

(* ------------------- validation over many input texts ------------------ *)
LitEmbed == <<"y","o","u","t","u","b","e",".","c","o","m","/","e","m","b","e","d","/">>
PartSchemes ==
  { <<>>, LitHttp \o LitColonSlashes, LitHttp \o LitS \o LitColonSlashes,
    <<"f","t","p">> \o LitColonSlashes, <<"H","T","T","P","S">> \o LitColonSlashes }
PartWwws == { <<>>, LitWww, <<"m",".">> }
PartHosts == { LitYoutubeWatch, LitYoutuBe, LitEmbed, <<"y","o","u","t","u",".","b","e">> }
PartIds ==
  { VideoId, SubSeq(VideoId, 1, 10), VideoId \o <<"Z">>,
    SubSeq(VideoId, 1, 5) \o <<"!">> \o SubSeq(VideoId, 7, 11) }
PartTails == { <<>>, <<"&","t","=","9">> }
PartPadsLeft == { <<>>, <<" ">> }
PartPadsRight == { <<>>, <<"\t", " ">> }

\* the input texts of the validation specification
ManyUrls ==
  Urls \cup
  { l \o sc \o w \o h \o id \o tl \o r :
      l \in PartPadsLeft, sc \in PartSchemes, w \in PartWwws, h \in PartHosts,
      id \in PartIds, tl \in PartTails, r \in PartPadsRight }

InitValidate ==
  /\ videoUrl \in ManyUrls
  /\ isProcessing = FALSE
  /\ executions = <<>>
  /\ calls = <<>>
  /\ toasts = <<>>
  /\ notice = FALSE
  /\ now = 0

\* triggerWorkflow applied to each of the input texts
ValidateSpec == InitValidate /\ [][triggerWorkflow]_vars

(* ------------------------- vocabulary of the claims -------------------- *)
\* s consists of white space only (or of nothing)
IsBlank(s) == \A i \in 1 .. Len(s) : s[i] \in WhiteSpace

\* the text of s from its first to its last character that is not white space
Trimmed(s) ==
  LET solid == { i \in 1 .. Len(s) : s[i] \notin WhiteSpace }
  IN  IF solid = {} THEN <<>>
      ELSE SubSeq(s, CHOOSE i \in solid : \A j \in solid : i <= j,
                     CHOOSE i \in solid : \A j \in solid : i >= j)

\* the heads of the required shape: optional scheme, optional www., host
ShapeHeads ==
  { sc \o w \o h :
      sc \in { <<>>, <<"h","t","t","p",":","/","/">>, <<"h","t","t","p","s",":","/","/">> },
      w \in { <<>>, <<"w","w","w",".">> },
      h \in { <<"y","o","u","t","u","b","e",".","c","o","m","/","w","a","t","c","h","?","v","=">>,
              <<"y","o","u","t","u",".","b","e","/">> } }

\* s begins with a head followed by 11 identifier characters
BeginsWithShape(s) ==
  \E hd \in ShapeHeads :
    /\ Len(s) >= Len(hd) + 11
    /\ SubSeq(s, 1, Len(hd)) = hd
    /\ \A i \in (Len(hd) + 1) .. (Len(hd) + 11) : s[i] \in IdChars

\* s is a head followed by an 11-character identifier, and nothing else
HasRequiredShape(s) == BeginsWithShape(s) /\ \E hd \in ShapeHeads :
    SubSeq(s, 1, Len(hd)) = hd /\ Len(s) = Len(hd) + 11

\* the step accepted the submission: one more record and one more POST
Accepted == Len(calls') = Len(calls) + 1 /\ Len(executions') = Len(executions) + 1

\* the record that submission k created, in the list execs
recordOf(execs, k) == execs[CHOOSE i \in 1 .. Len(execs) : execs[i].sub = k]

(* ------------------------------- claims -------------------------------- *)
\* C1: a rejected submission changes nothing: when triggerWorkflow runs on an
\* input that is empty, white space only or fails the pattern, the executions
\* list, isProcessing and the input text are unchanged, no record is created
\* and no request is issued.
C1_RejectedChangesNothing ==
  [][ (triggerWorkflow /\ (IsBlank(videoUrl) \/ ~ BeginsWithShape(Trimmed(videoUrl))))
      => UNCHANGED <<executions, isProcessing, videoUrl, calls, toasts>> ]_vars

\* C1 witness: "not a url" has been rejected while a record and a request of
\* an earlier submission exist
C1_Witness ==
  /\ notice
  /\ videoUrl = UrlNotAUrl
  /\ Len(executions) = 1
  /\ Len(calls) = 1

\* C2 as stated: triggerWorkflow proceeds exactly when the input string is
\* [scheme][www.]host followed by an 11-character identifier.
C2_ExactShapeDecides ==
  [][ triggerWorkflow => (Accepted <=> HasRequiredShape(videoUrl)) ]_vars

\* C2 amended: triggerWorkflow proceeds exactly when the input, with the white
\* space at its ends removed, begins with [scheme][www.]host and 11 identifier
\* characters; whatever follows them is not examined.
C2_TrimmedPrefixDecides ==
  [][ triggerWorkflow => (Accepted <=> BeginsWithShape(Trimmed(videoUrl))) ]_vars

\* C2 witness: a padded URL whose identifier is followed by more characters
\* has been accepted and posted
C2_Witness ==
  /\ videoUrl = <<" ">> \o UrlWatch \o <<"&","t","=","9">> \o <<"\t", " ">>
  /\ Len(calls) = 1
  /\ Len(executions) = 1

\* the records of the list execs that submission k created
recordsOf(execs, k) == { i \in 1 .. Len(execs) : execs[i].sub = k }

\* every accepted submission has exactly one record, and there are no others
OneRecordEach ==
  /\ Len(executions) = Len(calls)
  /\ \A k \in 1 .. Len(calls) : Cardinality(recordsOf(executions, k)) = 1

\* C3: a successful trigger results in exactly one new record: acceptance adds
\* one record, and when the POST resolves the list keeps its length, the
\* record of that submission is success with the response payload as result,
\* its id and startedAt are those it was created with, and the input is cleared.
C3_SuccessfulTrigger ==
  /\ [] OneRecordEach
  /\ [][ triggerWorkflow /\ Accepted =>
           /\ Len(executions') = Len(executions) + 1
           /\ recordOf(executions', Len(calls')).id = idOf(now)
           /\ recordOf(executions', Len(calls')).startedAt = toISOString(now) ]_vars
  /\ [][ \A k \in 1 .. Len(calls) :
           /\ recordOf(executions', k).id = recordOf(executions, k).id
           /\ recordOf(executions', k).startedAt = recordOf(executions, k).startedAt ]_vars
  /\ [][ \A k \in 1 .. Len(calls) : \A data \in Datas :
           postResolves(k, data) =>
             /\ Len(executions') = Len(executions)
             /\ recordOf(executions', k).status = "success"
             /\ recordOf(executions', k).result = data
             /\ calls'[k].pc = "done"
             /\ videoUrl' = <<>> ]_vars

\* C3 witness: the second of two submissions has resolved with a payload while
\* the first is still awaited
C3_Witness ==
  /\ Len(calls) = 2
  /\ calls[1].pc = "await" /\ calls[2].pc = "done"
  /\ Len(executions) = 2
  /\ executions[1].status = "success"
  /\ executions[1].result = [clips_generated |-> 3]
  /\ executions[1].id # executions[2].id
  /\ executions[2].status = "running"
  /\ videoUrl = <<>>

\* C4: a failed trigger results in exactly one new record: when the POST
\* rejects, for any error, the list keeps the length it got at acceptance, the
\* record of that submission is error, and from then on it is never running.
C4_FailedTrigger ==
  /\ [] OneRecordEach
  /\ [][ \A k \in 1 .. Len(calls) : \A error \in Errors :
           postRejects(k, error) =>
             /\ Len(executions') = Len(executions)
             /\ recordOf(executions', k).status = "error"
             /\ calls'[k].pc = "done" ]_vars
  /\ [] (\A k \in 1 .. Len(calls) :
           calls[k].pc = "done" => recordOf(executions, k).status # "running")

\* C4 witness: the first of two submissions has failed while the second is
\* still awaited
C4_Witness ==
  /\ Len(calls) = 2
  /\ calls[1].pc = "done" /\ calls[2].pc = "await"
  /\ Len(executions) = 2
  /\ executions[2].status = "error"
  /\ executions[1].status = "running"
  /\ toasts[1].type = "error"

\* C5: terminal records never change: a record is created running, and once
\* its status is success or error no later step changes its status, result,
\* id or startedAt.
C5_TerminalNeverChanges ==
  /\ [][ triggerWorkflow /\ Accepted =>
           recordOf(executions', Len(calls')).status = "running" ]_vars
  /\ [][ \A k \in 1 .. Len(calls) :
           recordOf(executions, k).status \in {"success", "error"} =>
             recordOf(executions', k) = recordOf(executions, k) ]_vars

\* C6: each accepted submission issues exactly one POST, whose body is the
\* trimmed input, together with the creation of its running record; there is
\* never a POST without the record of its submission.
C6_OnePostPerSubmission ==
  /\ [] OneRecordEach
  /\ [][ Len(calls') # Len(calls) => triggerWorkflow /\ Accepted ]_vars
  /\ [][ triggerWorkflow /\ Accepted =>
           /\ SubSeq(calls', 1, Len(calls)) = calls
           /\ calls'[Len(calls')].videoUrl = Trimmed(videoUrl)
           /\ calls'[Len(calls')].pc = "await"
           /\ recordOf(executions', Len(calls')).status = "running"
           /\ recordOf(executions', Len(calls')).id = calls'[Len(calls')].execution ]_vars
  /\ [][ \A k \in 1 .. Len(calls) : calls'[k].videoUrl = calls[k].videoUrl ]_vars

\* C6 witness: a padded URL has been accepted and its POST, carrying the URL
\* without the padding, is awaited
C6_Witness ==
  /\ videoUrl = <<" ">> \o UrlShort \o <<" ">>
  /\ Len(calls) = 1
  /\ calls[1].videoUrl = UrlShort
  /\ calls[1].pc = "await"
  /\ executions[1].status = "running"

\* C7: the list is in newest-first submission order in every state; an accepted
\* submission inserts its record at the head, the list never shrinks, and a
\* completion keeps the order of the records.
C7_NewestFirst ==
  /\ [] (\A i \in 1 .. Len(executions) : executions[i].sub = Len(executions) - i + 1)
  /\ [][ Len(executions') >= Len(executions) ]_vars
  /\ [][ triggerWorkflow /\ Accepted =>
           /\ executions'[1].sub = Len(calls')
           /\ Tail(executions') = executions ]_vars
  /\ [][ \A k \in 1 .. Len(calls) :
           (\E data \in Datas : postResolves(k, data)) \/ (\E error \in Errors : postRejects(k, error))
             => [i \in 1 .. Len(executions') |-> executions'[i].sub]
                  = [i \in 1 .. Len(executions) |-> executions[i].sub] ]_vars

\* C7 witness: of three submissions the oldest has completed last, and the
\* list still shows the newest first
C7_Witness ==
  /\ Len(executions) = 3
  /\ calls[1].pc = "done" /\ calls[2].pc = "await" /\ calls[3].pc = "done"
  /\ executions[1].sub = 3 /\ executions[3].sub = 1
  /\ executions[3].status = "success"
  /\ executions[2].status = "running"
  /\ executions[1].status = "error"

\* C8: when a submission completes, the only record whose fields change is the
\* record that submission created.
C8_CompletionTouchesOwnRecordOnly ==
  [][ \A k \in 1 .. Len(calls) :
        (\E data \in Datas : postResolves(k, data)) \/ (\E error \in Errors : postRejects(k, error))
          => \A j \in 1 .. Len(calls) :
               j # k => recordOf(executions', j) = recordOf(executions, j) ]_vars

\* C9 as stated: the page lets the user start a submission while the record of
\* an earlier one is still running: with a text in the field, the button is not
\* disabled while a record is running.
C9_ButtonUsableWhileRunning ==
  (/\ \E i \in 1 .. Len(executions) : executions[i].status = "running"
   /\ ~ IsBlank(videoUrl))
  => ~ buttonDisabled

\* C9 amended: through the controls of the page at most one record is running at
\* any time: while a submission is awaited isProcessing is true and the field
\* and the button are disabled, so the next submission starts only after the
\* earlier one has completed.
C9_OneInFlightOnPage ==
  /\ Cardinality({ i \in 1 .. Len(executions) : executions[i].status = "running" }) <= 1
  /\ Cardinality({ k \in 1 .. Len(calls) : calls[k].pc = "await" }) <= 1
  /\ (\E k \in 1 .. Len(calls) : calls[k].pc = "await")
       => (isProcessing /\ buttonDisabled /\ inputDisabled)

\* C9 witness: a second submission is running after the first has completed,
\* and the controls are disabled
C9_Witness ==
  /\ Len(executions) = 2
  /\ executions[1].status = "running"
  /\ executions[2].status = "success"
  /\ ~ IsBlank(videoUrl)
  /\ buttonDisabled

\* the POST of call k settles, one way or the other
settles(k) ==
  /\ k <= Len(calls)
  /\ \/ \E data \in Datas : postResolves(k, data)
     \/ \E error \in Errors : postRejects(k, error)

\* every POST settles: axios rejects it after timeout: 300000 at the latest
Fairness == \A k \in 1 .. (MaxSubs + 1) : WF_vars(settles(k))
LiveSpec == PageSpec /\ Fairness

\* the status of the record of submission k, once it has been accepted
statusOf(k) == IF k <= Len(calls) THEN recordOf(executions, k).status ELSE "none"

\* the handler of submission k has run to its end
finished(k) == k <= Len(calls) /\ calls[k].pc = "done"

\* C10: every rejection of the POST ends in the catch block: the record of the
\* submission becomes error, its toast shows an error message, and the handler
\* finishes; every running record eventually is success or error, and
\* isProcessing eventually is false again.
C10_EverySubmissionFinishes ==
  /\ [][ \A k \in 1 .. Len(calls) : \A error \in Errors :
           postRejects(k, error) =>
             /\ recordOf(executions', k).status = "error"
             /\ toasts'[calls[k].loadingToast].type = "error"
             /\ toasts'[calls[k].loadingToast].message
                  \in {MsgTimeout, MsgNotFound, MsgCannotConnect, MsgGeneric, "Workflow failed"}
             /\ calls'[k].pc = "done"
             /\ ~ isProcessing' ]_vars
  /\ \A k \in 1 .. (MaxSubs + 1) :
       (statusOf(k) = "running") ~> (statusOf(k) \in {"success", "error"} /\ finished(k))
  /\ isProcessing ~> ~ isProcessing

\* C10 witness: a POST has timed out; its record is error, its toast shows the
\* time-out message and the form is usable again
C10_Witness ==
  /\ Len(calls) = 1
  /\ calls[1].pc = "done"
  /\ executions[1].status = "error"
  /\ toasts[1] = [type |-> "error", message |-> MsgTimeout]
  /\ ~ isProcessing

\* the categories of a failure, by what happened to the request
\* the client gave up waiting
IsTimeout(error) ==
  error.response = Undefined /\ error.message # <<>> /\ error.message[1] = "timeout"
\* the server answered 404
IsNotFound(error) ==
  error.response # Undefined /\ error.response.status = 404
\* no answer came and the request did not get through
IsUnreachable(error) ==
  error.response = Undefined /\ error.code = "ERR_NETWORK"
\* the answer of the server carries a message text
IsServerReported(error) ==
  /\ error.response # Undefined
  /\ error.response.data # Undefined
  /\ error.response.data.message # ""

\* the message the toast of submission k shows after the step
shownAfter(k) == toasts'[calls[k].loadingToast].message

\* C11 as stated: every failed trigger is reported with the message of its
\* category: time-out, 404, unreachable network, the server's own message; the
\* generic fallback only when the failure is in none of the categories.
C11_MessageOfCategory ==
  [][ \A k \in 1 .. Len(calls) : \A error \in Errors :
        postRejects(k, error) =>
          /\ toasts'[calls[k].loadingToast].type = "error"
          /\ IsTimeout(error) => shownAfter(k) = MsgTimeout
          /\ IsNotFound(error) => shownAfter(k) = MsgNotFound
          /\ IsUnreachable(error) => shownAfter(k) = MsgCannotConnect
          /\ IsServerReported(error) => shownAfter(k) = error.response.data.message
          /\ shownAfter(k) = MsgGeneric =>
               ~ (IsTimeout(error) \/ IsNotFound(error) \/ IsUnreachable(error)
                    \/ IsServerReported(error)) ]_vars

\* C11 amended: as stated, except that the server's own message is shown only
\* when the status of its answer is not 404; an answer with status 404 gets
\* the endpoint-not-found message whether or not it carries a message text.
C11_MessageOfFirstCategory ==
  [][ \A k \in 1 .. Len(calls) : \A error \in Errors :
        postRejects(k, error) =>
          /\ toasts'[calls[k].loadingToast].type = "error"
          /\ IsTimeout(error) => shownAfter(k) = MsgTimeout
          /\ IsNotFound(error) => shownAfter(k) = MsgNotFound
          /\ IsUnreachable(error) => shownAfter(k) = MsgCannotConnect
          /\ (IsServerReported(error) /\ ~ IsNotFound(error))
               => shownAfter(k) = error.response.data.message
          /\ shownAfter(k) = MsgGeneric =>
               ~ (IsTimeout(error) \/ IsNotFound(error) \/ IsUnreachable(error)
                    \/ IsServerReported(error)) ]_vars

\* C11 witness: of three failed triggers one shows the server's message, one
\* the endpoint-not-found message and one the time-out message
C11_Witness ==
  /\ Len(calls) = 3
  /\ \A k \in 1 .. 3 : calls[k].pc = "done" /\ executions[k].status = "error"
  /\ toasts[1] = [type |-> "error", message |-> "Workflow failed"]
  /\ toasts[2] = [type |-> "error", message |-> MsgNotFound]
  /\ toasts[3] = [type |-> "error", message |-> MsgTimeout]

====
